---- MODULE Spec2Model ----
(***************************************************************************)
(* A model of the bookmark manager of src/main.go: the canonical           *)
(* collection (AppState), loadState, the merge addBookmark, the two        *)
(* importers, the import run importBookmarks and the REPL commands of      *)
(* handleCommand.                                                          *)
(***************************************************************************)
EXTENDS Integers, Sequences, FiniteSets, TLC

\* ------------------------------------------------------------------ bounds
\* Bookmarks in a persisted bookmarks.json.
MaxFileLen == 2
\* Nodes in the Chromium bookmark file whose traversal is examined.
MaxNodes == 3
\* Nodes in a Chromium bookmark file an import run finds on disk.
MaxDiskNodes == 1
\* Merges that precede the first import of the examined file.
MaxPre == 1
\* Rows the Firefox query returns.
MaxRows == 1
\* Entries under the Firefox root directory.
MaxEntries == 3

\* ------------------------------------------------------------- value sets
\* Display names: one-byte strings, with their byte value (Go compares
\* strings bytewise).
Names == {"a", "B"}
URLs == {"u1", "u2"}
\* Identifiers a persisted file may hold (hand-edited files included).
FileIDs == {-1, 2}

Code(s) ==
    CASE s = "A" -> 65 [] s = "B" -> 66 [] s = "a" -> 97 [] s = "b" -> 98

Chr(c) ==
    CASE c = 65 -> "A" [] c = 66 -> "B" [] c = 97 -> "a" [] c = 98 -> "b"

\* strings.ToLower on a one-byte name.
ToLower(s) == IF Code(s) >= 65 /\ Code(s) <= 90 THEN Chr(Code(s) + 32) ELSE s

\* The less function of the list command's sort.Slice.
NameLess(x, y) == Code(ToLower(x.Name)) < Code(ToLower(y.Name))

Bookmark == [ID : Int, Name : Names, URL : URLs, Favorite : BOOLEAN]

\* A bookmark as json.Unmarshal may decode it from bookmarks.json.
FileBookmarks == [ID : FileIDs, Name : Names, URL : URLs, Favorite : BOOLEAN]

\* The bookmarks arrays of the persisted files.
Files == UNION {[1..n -> FileBookmarks] : n \in 0..MaxFileLen}

\* -------------------------------------------------------------- AppState
\* The loop of loadState: the largest identifier, from a seed of 0.
RECURSIVE maxIDFrom(_, _, _)
maxIDFrom(bs, i, maxID) ==
    IF i > Len(bs) THEN maxID
    ELSE maxIDFrom(bs, i + 1, IF bs[i].ID > maxID THEN bs[i].ID ELSE maxID)

\* loadState on a readable, well-formed file: nextID starts at 1 and is
\* recomputed when the file holds bookmarks.
loadState(bs) ==
    [Bookmarks |-> bs,
     nextID |-> IF Len(bs) > 0 THEN maxIDFrom(bs, 1, 0) + 1 ELSE 1]

\* addBookmark without the search for the URL.
addBookmarkNoDedup(s, name, url) ==
    [Bookmarks |-> Append(s.Bookmarks,
                          [ID |-> s.nextID, Name |-> name, URL |-> url,
                           Favorite |-> FALSE]),
     nextID |-> s.nextID + 1]

\* addBookmark that leaves nextID as it is.
addBookmarkSameID(s, name, url) ==
    IF \E i \in 1..Len(s.Bookmarks) : s.Bookmarks[i].URL = url
    THEN s
    ELSE [Bookmarks |-> Append(s.Bookmarks,
                               [ID |-> s.nextID, Name |-> name, URL |-> url,
                                Favorite |-> FALSE]),
          nextID |-> s.nextID]

\* addBookmark that gives a bookmark already present the new name.
addBookmarkRename(s, name, url) ==
    IF \E i \in 1..Len(s.Bookmarks) : s.Bookmarks[i].URL = url
    THEN [Bookmarks |-> [i \in 1..Len(s.Bookmarks) |->
                           IF s.Bookmarks[i].URL = url
                           THEN [s.Bookmarks[i] EXCEPT !.Name = name]
                           ELSE s.Bookmarks[i]],
          nextID |-> s.nextID]
    ELSE [Bookmarks |-> Append(s.Bookmarks,
                               [ID |-> s.nextID, Name |-> name, URL |-> url,
                                Favorite |-> FALSE]),
          nextID |-> s.nextID + 1]

\* addBookmark that compares the URL with the last bookmark only.
addBookmarkLastOnly(s, name, url) ==
    IF Len(s.Bookmarks) > 0 /\ s.Bookmarks[Len(s.Bookmarks)].URL = url
    THEN s
    ELSE [Bookmarks |-> Append(s.Bookmarks,
                               [ID |-> s.nextID, Name |-> name, URL |-> url,
                                Favorite |-> FALSE]),
          nextID |-> s.nextID + 1]

\* addBookmark that searches for the name instead of the URL.
addBookmarkByName(s, name, url) ==
    IF \E i \in 1..Len(s.Bookmarks) : s.Bookmarks[i].Name = name
    THEN s
    ELSE [Bookmarks |-> Append(s.Bookmarks,
                               [ID |-> s.nextID, Name |-> name, URL |-> url,
                                Favorite |-> FALSE]),
          nextID |-> s.nextID + 1]

\* AppState.addBookmark: a no-op when the URL is present, else an append
\* under nextID.
addBookmark(s, name, url) ==
    IF \E i \in 1..Len(s.Bookmarks) : s.Bookmarks[i].URL = url
    THEN s
    ELSE [Bookmarks |-> Append(s.Bookmarks,
                               [ID |-> s.nextID, Name |-> name, URL |-> url,
                                Favorite |-> FALSE]),
          nextID |-> s.nextID + 1]

\* addBookmark as the importers call it. calls records the (name, url) pairs
\* handed to the merge, in call order; clash, that one of them had the URL of
\* a bookmark present under another name.
submit(s, name, url) ==
    LET t == addBookmark([Bookmarks |-> s.Bookmarks, nextID |-> s.nextID],
                         name, url)
    IN [Bookmarks |-> t.Bookmarks, nextID |-> t.nextID,
        calls |-> Append(s.calls, <<name, url>>),
        clash |-> \/ s.clash
                  \/ \E i \in 1..Len(s.Bookmarks) :
                       /\ s.Bookmarks[i].URL = url
                       /\ s.Bookmarks[i].Name # name]

\* ------------------------------------------------------- Chromium importer
\* A decoded bookmark file: its chromeBookmarkNode values, each with the index
\* of the node whose Children holds it (0: a value of the roots map); the
\* children of a node are in index order. The decoder takes a url field on a
\* node of any type.
NodeKinds ==
    {[Type |-> "folder", Name |-> "B", URL |-> "u1"],
     [Type |-> "url", Name |-> "a", URL |-> ""],
     [Type |-> "url", Name |-> "a", URL |-> "u1"],
     [Type |-> "url", Name |-> "B", URL |-> "u2"]}

RECURSIVE ChromeFilesOfLen(_)
ChromeFilesOfLen(n) ==
    IF n = 0 THEN {<<>>}
    ELSE {Append(f, [Type |-> k.Type, Name |-> k.Name, URL |-> k.URL,
                     parent |-> p]) :
            f \in ChromeFilesOfLen(n - 1), k \in NodeKinds, p \in 0..(n - 1)}

ChromeFiles == UNION {ChromeFilesOfLen(n) : n \in 0..MaxNodes}

DiskFiles == UNION {ChromeFilesOfLen(n) : n \in 0..MaxDiskNodes}

\* The entries of t under entry i (0: the top level), in order.
Children(t, i) ==
    SelectSeq([j \in 1..Len(t) |-> j], LAMBDA j : t[j].parent = i)

\* The sequences that hold every element of S once.
Perms(S) ==
    {p \in [1..Cardinality(S) -> S] :
        \A i, j \in 1..Cardinality(S) : i # j => p[i] # p[j]}

\* A traversal that hands a node to the merge after its children.
RECURSIVE parsePostOrder(_, _, _)
RECURSIVE parseChildrenPostOrder(_, _, _)
parsePostOrder(f, i, s) ==
    LET t == parseChildrenPostOrder(f, Children(f, i), s)
    IN IF f[i].Type = "url" /\ f[i].URL # ""
       THEN submit(t, f[i].Name, f[i].URL)
       ELSE t

parseChildrenPostOrder(f, ks, s) ==
    IF ks = <<>> THEN s
    ELSE parseChildrenPostOrder(f, Tail(ks), parsePostOrder(f, Head(ks), s))

\* parseChromeBookmarks: the node itself, then its children in order.
RECURSIVE parseChromeBookmarks(_, _, _)
RECURSIVE parseChildren(_, _, _)
parseChromeBookmarks(f, i, s) ==
    parseChildren(f, Children(f, i),
                  IF f[i].Type = "url" /\ f[i].URL # ""
                  THEN submit(s, f[i].Name, f[i].URL)
                  ELSE s)

parseChildren(f, ks, s) ==
    IF ks = <<>> THEN s
    ELSE parseChildren(f, Tail(ks), parseChromeBookmarks(f, Head(ks), s))

\* importFromChrome on a readable, well-formed file: every value of the
\* roots map, in the order the map iteration delivers them.
RECURSIVE importFromChrome(_, _, _)
importFromChrome(f, order, s) ==
    IF order = <<>> THEN s
    ELSE importFromChrome(f, Tail(order),
                          parseChromeBookmarks(f, Head(order), s))

\* The orders in which ranging over the roots map may deliver its values.
RootOrders(f) == Perms({i \in 1..Len(f) : f[i].parent = 0})

\* -------------------------------------------------------- Firefox importer
Rows == UNION {[1..n -> Names \X URLs] : n \in 0..MaxRows}

\* importFromFirefox once the query succeeded: one addBookmark per row.
RECURSIVE importFromFirefox(_, _)
importFromFirefox(rows, s) ==
    IF rows = <<>> THEN s
    ELSE importFromFirefox(Tail(rows), submit(s, rows[1][1], rows[1][2]))

\* The directory tree under the Firefox root: each entry with the index of
\* its directory (0: the root), the entries of a directory in lexical (index)
\* order. "db" is a regular file named places.sqlite.
RECURSIVE DirTreesOfLen(_)
DirTreesOfLen(n) ==
    IF n = 0 THEN {<<>>}
    ELSE UNION {{Append(t, [kind |-> k, parent |-> p]) :
                    k \in {"dir", "db", "file"},
                    p \in {0} \cup {q \in 1..(n - 1) : t[q].kind = "dir"}} :
                t \in DirTreesOfLen(n - 1)}

DirTrees == UNION {DirTreesOfLen(n) : n \in 0..MaxEntries}

\* The callback importBookmarks hands to filepath.WalkDir: TRUE when it
\* returns filepath.SkipDir.
walkFn(t, i) == t[i].kind = "db"

\* filepath.WalkDir from entry i with that callback: the entries the callback
\* is invoked on, in order, and whether SkipDir reaches the loop over the
\* containing directory (which then breaks).
RECURSIVE walkDir(_, _, _)
RECURSIVE walkEntries(_, _, _)
walkDir(t, i, log) ==
    IF walkFn(t, i) THEN [log |-> Append(log, i), skip |-> TRUE]
    ELSE IF t[i].kind # "dir" THEN [log |-> Append(log, i), skip |-> FALSE]
    ELSE [log |-> walkEntries(t, Children(t, i), Append(log, i)),
          skip |-> FALSE]

walkEntries(t, ks, log) ==
    IF ks = <<>> THEN log
    ELSE LET r == walkDir(t, Head(ks), log)
         IN IF r.skip THEN r.log ELSE walkEntries(t, Tail(ks), r.log)

\* The whole walk of the Firefox root.
WalkLog(t) == walkEntries(t, Children(t, 0), <<>>)

\* --------------------------------------------------------- Profile Locator
GOOS == {"darwin", "linux", "windows", "plan9"}

\* getBrowserPaths: the labels of chromeLikePaths (one path each).
chromeLikePaths(os) ==
    CASE os = "darwin" -> {"Chrome", "Brave", "Edge"}
      [] os = "linux" -> {"Chrome", "Brave"}
      [] os = "windows" -> {"Chrome", "Brave", "Edge"}
      [] OTHER -> {}

\* getBrowserPaths: whether firefoxPaths holds "firefox_dir".
hasFirefoxDir(os) == os \in {"darwin", "linux", "windows"}

\* loadState without a bookmarks.json: the default browser command.
defaultBrowserCmd(os) ==
    CASE os = "darwin" -> "open"
      [] os = "linux" -> "xdg-open"
      [] os = "windows" -> "cmd /c start"
      [] OTHER -> ""

\* The browser commands a bookmarks.json may hold.
FileCmds == {"", "firefox"}

\* strings.Fields on a browser command.
Fields(c) ==
    CASE c = "" -> <<>>
      [] c = "cmd /c start" -> <<"cmd", "/c", "start">>
      [] OTHER -> <<c>>

\* ------------------------------------------------------------- the program
VARIABLES
    bookmarks,        \* AppState.Bookmarks
    nextID,           \* AppState.nextID
    browserCmd,       \* AppState.Config.DefaultBrowserCmd
    goos,             \* runtime.GOOS
    pc,               \* "repl", or the place of importBookmarks, or "crashed"
    last,             \* history: the command handled last
    todo,             \* importBookmarks: the chromeLikePaths yet to range over
    initialCount,     \* importBookmarks: initialCount
    foundAnyBrowser,  \* importBookmarks: foundAnyBrowser
    foundFirefoxDB,   \* importBookmarks: foundFirefoxDB
    ffPending,        \* places.sqlite files the walk has yet to reach
    summary,          \* the last summary importBookmarks printed
    runStart,         \* history: the collection when the run began
    failures,         \* history: the sources of this run that failed
    clash,            \* history: this run met a present URL under a new name
    file,             \* the Chromium file under examination
    rootOrder,        \* history: the roots order of the last importFromChrome
    calls,            \* history: the pairs the last import handed to the merge
    snap,             \* history: the state after the first import
    phase,            \* the step of the examination
    pairs,            \* the two pairs whose merge orders are compared
    resAB,            \* the state after the pairs in order
    resBA,            \* the state after the pairs in reverse order
    tree,             \* the directory tree whose walk is examined
    visited           \* the entries the walk of tree called the callback on

stateVars == <<bookmarks, nextID, browserCmd, goos>>
runVars == <<pc, todo, initialCount, foundAnyBrowser, foundFirefoxDB, ffPending,
             summary, runStart, failures, clash>>
pureVars == <<file, rootOrder, calls, snap, phase, pairs, resAB, resBA, tree,
              visited>>
vars == <<stateVars, last, runVars, pureVars>>

NoSummary == [kind |-> "none", newCount |-> 0]
NoState == [Bookmarks |-> <<>>, nextID |-> 1]

RunIdle ==
    /\ pc = "repl"
    /\ last = ""
    /\ todo = {}
    /\ initialCount = 0
    /\ foundAnyBrowser = FALSE
    /\ foundFirefoxDB = FALSE
    /\ ffPending = 0
    /\ summary = NoSummary
    /\ runStart = <<>>
    /\ failures = 0
    /\ clash = FALSE

PureIdle ==
    /\ file = <<>>
    /\ rootOrder = <<>>
    /\ calls = <<>>
    /\ snap = NoState
    /\ phase = 0
    /\ pairs = <<>>
    /\ resAB = NoState
    /\ resBA = NoState
    /\ tree = <<>>
    /\ visited = <<>>

\* main up to the prompt when there is no bookmarks.json: loadState creates
\* the state.
Init ==
    /\ goos \in GOOS
    /\ bookmarks = <<>>
    /\ nextID = 1
    /\ browserCmd = defaultBrowserCmd(goos)
    /\ RunIdle
    /\ PureIdle

\* main up to the prompt on a bookmarks.json, whatever bookmarks it holds (a
\* file that cannot be read or decoded ends the process before the prompt).
InitLoad ==
    /\ goos \in GOOS
    /\ \E f \in Files :
         /\ bookmarks = loadState(f).Bookmarks
         /\ nextID = loadState(f).nextID
    /\ browserCmd \in FileCmds
    /\ RunIdle
    /\ PureIdle

Cur == [Bookmarks |-> bookmarks, nextID |-> nextID, calls |-> <<>>,
        clash |-> FALSE]

\* ------------------------------------------------------------ REPL commands
\* The arguments of open and fav: none, one strconv.Atoi rejects, or an
\* integer.
IDArgs ==
    {[kind |-> "none", id |-> 0], [kind |-> "text", id |-> 0]} \cup
    {[kind |-> "int", id |-> n] :
        n \in {0} \cup {bookmarks[i].ID : i \in 1..Len(bookmarks)}}

\* The outcomes of the sort.Slice of list: the orders of bs that its less
\* function (lower-cased names) leaves no pair out of order in; the sort is
\* not stable.
sortByName(bs) ==
    {q \in {[i \in 1..Len(bs) |-> bs[p[i]]] : p \in Perms(1..Len(bs))} :
        \A i, j \in 1..Len(bs) : i < j => ~NameLess(q[j], q[i])}

\* list, ls (with or without fav or links): sorts the collection in place.
List ==
    /\ pc = "repl"
    /\ bookmarks' \in sortByName(bookmarks)
    /\ last' = "list"
    /\ UNCHANGED <<nextID, browserCmd, goos, runVars, pureVars>>

\* A fav loop without the break: every bookmark with the identifier.
toggleFavoriteAll(bs, id) ==
    [i \in 1..Len(bs) |->
        IF bs[i].ID = id THEN [bs[i] EXCEPT !.Favorite = ~bs[i].Favorite]
        ELSE bs[i]]

\* The loop of fav: the first bookmark with the identifier has its flag
\* flipped.
toggleFavorite(bs, id) ==
    IF \E i \in 1..Len(bs) : bs[i].ID = id
    THEN LET i == CHOOSE k \in 1..Len(bs) :
                    /\ bs[k].ID = id
                    /\ \A m \in 1..(k - 1) : bs[m].ID # id
         IN [bs EXCEPT ![i].Favorite = ~bs[i].Favorite]
    ELSE bs

\* fav <id>.
Fav ==
    /\ pc = "repl"
    /\ \E a \in IDArgs :
         bookmarks' = IF a.kind = "int" THEN toggleFavorite(bookmarks, a.id)
                      ELSE bookmarks
    /\ last' = "fav"
    /\ UNCHANGED <<nextID, browserCmd, goos, runVars, pureVars>>

\* open <id>: starts the browser command on the bookmark's URL; with an
\* empty command cmdParts[0] is out of range and the process panics.
Open ==
    /\ pc = "repl"
    /\ \E a \in IDArgs :
         pc' = IF /\ a.kind = "int"
                  /\ \E i \in 1..Len(bookmarks) : bookmarks[i].ID = a.id
                  /\ Fields(browserCmd) = <<>>
               THEN "crashed" ELSE "repl"
    /\ last' = "open"
    /\ UNCHANGED <<stateVars, todo, initialCount, foundAnyBrowser,
                   foundFirefoxDB, ffPending, summary, runStart, failures,
                   clash, pureVars>>

\* set-browser <cmd>: without arguments only prints the usage.
SetBrowser ==
    /\ pc = "repl"
    /\ \E c \in {"", "firefox"} :
         browserCmd' = IF Fields(c) = <<>> THEN browserCmd ELSE c
    /\ last' = "set-browser"
    /\ UNCHANGED <<bookmarks, nextID, goos, runVars, pureVars>>

\* help, save, an empty line, an unknown command: nothing of the state in
\* memory changes.
Help ==
    /\ pc = "repl"
    /\ last' = "help"
    /\ UNCHANGED <<stateVars, runVars, pureVars>>

\* exit, quit or the end of the input: main saves the state; the next start
\* of the program loads what was saved.
Restart ==
    /\ pc = "repl"
    /\ bookmarks' = loadState(bookmarks).Bookmarks
    /\ nextID' = loadState(bookmarks).nextID
    /\ last' = ""
    /\ summary' = NoSummary
    /\ UNCHANGED <<browserCmd, goos, pc, todo, initialCount, foundAnyBrowser,
                   foundFirefoxDB, ffPending, runStart, failures, clash,
                   pureVars>>

\* ----------------------------------------------------------- importBookmarks
\* What one candidate path may hold: nothing (os.Stat fails), a file
\* importFromChrome cannot read or decode, or a bookmark file, with the order
\* in which its roots map is ranged over.
ChromeOutcomes ==
    {[stat |-> FALSE, err |-> FALSE, file |-> <<>>, order |-> <<>>],
     [stat |-> TRUE, err |-> TRUE, file |-> <<>>, order |-> <<>>]} \cup
    UNION {{[stat |-> TRUE, err |-> FALSE, file |-> f, order |-> o] :
              o \in RootOrders(f)} : f \in DiskFiles}

\* The body of the loop over chromeLikePaths for one path.
checkChromePath(o, s, found) ==
    IF ~o.stat THEN [s |-> s, found |-> found, failed |-> FALSE]
    ELSE IF o.err THEN [s |-> s, found |-> found, failed |-> TRUE]
    ELSE [s |-> importFromChrome(o.file, o.order, s), found |-> TRUE,
          failed |-> FALSE]

\* What one places.sqlite may do: fail to open or to answer the query, or
\* deliver rows (a row that does not scan is skipped).
FirefoxOutcomes ==
    {[err |-> TRUE, rows |-> <<>>]} \cup
    {[err |-> FALSE, rows |-> r] : r \in Rows}

\* A callback that, when the database fails, gives up what the run merged.
checkFirefoxDBRollback(o, s, found) ==
    IF o.err
    THEN [s |-> [s EXCEPT !.Bookmarks = runStart], found |-> found,
          failed |-> TRUE]
    ELSE [s |-> importFromFirefox(o.rows, s), found |-> TRUE,
          failed |-> FALSE]

\* The callback's work on one places.sqlite.
checkFirefoxDB(o, s, found) ==
    IF o.err THEN [s |-> s, found |-> found, failed |-> TRUE]
    ELSE [s |-> importFromFirefox(o.rows, s), found |-> TRUE,
          failed |-> FALSE]

\* import: the start of importBookmarks.
ImportStart ==
    /\ pc = "repl"
    /\ pc' = "chrome"
    /\ last' = "import"
    /\ todo' = chromeLikePaths(goos)
    /\ initialCount' = Len(bookmarks)
    /\ foundAnyBrowser' = FALSE
    /\ runStart' = bookmarks
    /\ summary' = NoSummary
    /\ UNCHANGED <<stateVars, foundFirefoxDB, ffPending, failures, clash,
                   pureVars>>

\* One iteration of the loop over chromeLikePaths (a map: any order).
ChromeStep ==
    /\ pc = "chrome"
    /\ \E b \in todo, o \in ChromeOutcomes :
         LET r == checkChromePath(o, Cur, foundAnyBrowser)
         IN /\ bookmarks' = r.s.Bookmarks
            /\ nextID' = r.s.nextID
            /\ foundAnyBrowser' = r.found
            /\ failures' = failures + (IF r.failed THEN 1 ELSE 0)
            /\ clash' = (clash \/ r.s.clash)
            /\ todo' = todo \ {b}
    /\ UNCHANGED <<browserCmd, goos, pc, last, initialCount, foundFirefoxDB,
                   ffPending, summary, runStart, pureVars>>

\* The places.sqlite files among the entries of log.
DBVisits(t, log) == SelectSeq(log, LAMBDA i : t[i].kind = "db")

\* The loop over chromeLikePaths is over; without a firefox_dir the summary
\* follows, else filepath.WalkDir starts on whatever the directory holds (a
\* missing root reaches the callback with an error, which it ignores).
WalkStart ==
    /\ pc = "chrome"
    /\ todo = {}
    /\ IF hasFirefoxDir(goos)
       THEN \E t \in DirTrees :
              LET dbs == Len(DBVisits(t, WalkLog(t)))
              IN /\ ffPending' = dbs
                 /\ foundFirefoxDB' = (dbs > 0)
                 /\ pc' = IF dbs > 0 THEN "firefox" ELSE "summary"
       ELSE /\ pc' = "summary"
            /\ UNCHANGED <<foundFirefoxDB, ffPending>>
    /\ UNCHANGED <<stateVars, last, todo, initialCount, foundAnyBrowser,
                   summary, runStart, failures, clash, pureVars>>

\* The callback reaches a places.sqlite.
FirefoxStep ==
    /\ pc = "firefox"
    /\ ffPending > 0
    /\ \E o \in FirefoxOutcomes :
         LET r == checkFirefoxDB(o, Cur, foundAnyBrowser)
         IN /\ bookmarks' = r.s.Bookmarks
            /\ nextID' = r.s.nextID
            /\ foundAnyBrowser' = r.found
            /\ failures' = failures + (IF r.failed THEN 1 ELSE 0)
            /\ clash' = (clash \/ r.s.clash)
    /\ ffPending' = ffPending - 1
    /\ pc' = IF ffPending = 1 THEN "summary" ELSE "firefox"
    /\ UNCHANGED <<browserCmd, goos, last, todo, initialCount, foundFirefoxDB,
                   summary, runStart, pureVars>>

\* The summary of importBookmarks.
printSummary(newCount, found) ==
    IF newCount > 0 THEN [kind |-> "imported", newCount |-> newCount]
    ELSE IF found THEN [kind |-> "nonew", newCount |-> 0]
    ELSE [kind |-> "notfound", newCount |-> 0]

\* The end of importBookmarks: back to the prompt.
Summary ==
    /\ pc = "summary"
    /\ summary' = printSummary(Len(bookmarks) - initialCount, foundAnyBrowser)
    /\ pc' = "repl"
    /\ todo' = {}
    /\ initialCount' = 0
    /\ foundAnyBrowser' = FALSE
    /\ foundFirefoxDB' = FALSE
    /\ ffPending' = 0
    /\ runStart' = <<>>
    /\ failures' = 0
    /\ clash' = FALSE
    /\ UNCHANGED <<stateVars, last, pureVars>>

\* A step of importBookmarks once it has begun.
RunStep == ChromeStep \/ WalkStart \/ FirefoxStep \/ Summary

Next ==
    \/ List
    \/ Fav
    \/ Open
    \/ SetBrowser
    \/ Help
    \/ Restart
    \/ ImportStart
    \/ ChromeStep
    \/ WalkStart
    \/ FirefoxStep
    \/ Summary

\* The program from a first start.
Spec == Init /\ [][Next]_vars

\* The same, where a run of importBookmarks that has begun goes on: the run
\* is one sequential call that waits for no input.
FairSpec == Spec /\ WF_vars(RunStep)

\* ------------------------------------------------- the merge after loadState
\* One call of addBookmark, as parseChromeBookmarks and importFromFirefox
\* issue it.
Merge ==
    /\ pc = "repl"
    /\ \E name \in Names, url \in URLs :
         LET r == submit(Cur, name, url)
         IN /\ bookmarks' = r.Bookmarks
            /\ nextID' = r.nextID
            /\ calls' = r.calls
            /\ clash' = r.clash
    /\ UNCHANGED <<browserCmd, goos, last, pc, todo, initialCount,
                   foundAnyBrowser, foundFirefoxDB, ffPending, summary,
                   runStart, failures, file, rootOrder, snap, phase, pairs,
                   resAB, resBA, tree, visited>>

NextLoad == Merge \/ Restart

\* Merges and restarts on whatever bookmarks.json held.
SpecLoad == InitLoad /\ [][NextLoad]_vars

NextRepl == List \/ Fav \/ Open \/ SetBrowser \/ Help

\* The commands other than import on whatever bookmarks.json held.
SpecRepl == InitLoad /\ [][NextRepl]_vars

\* ------------------------------------------- one Chromium file, imported twice
InitChrome ==
    /\ goos = "linux"
    /\ bookmarks = <<>>
    /\ nextID = 1
    /\ browserCmd = defaultBrowserCmd(goos)
    /\ RunIdle
    /\ file \in ChromeFiles
    /\ rootOrder = <<>>
    /\ calls = <<>>
    /\ snap = NoState
    /\ phase = 0
    /\ pairs = <<>>
    /\ resAB = NoState
    /\ resBA = NoState
    /\ tree = <<>>
    /\ visited = <<>>

\* A merge from another source, before the file is imported.
PreMerge ==
    /\ phase = 0
    /\ Len(bookmarks) < MaxPre
    /\ Merge

\* importFromChrome on the file: the first time, then once more.
ImportFile ==
    /\ phase < 2
    /\ \E o \in RootOrders(file) :
         LET r == importFromChrome(file, o, Cur)
         IN /\ bookmarks' = r.Bookmarks
            /\ nextID' = r.nextID
            /\ calls' = r.calls
            /\ rootOrder' = o
            /\ snap' = IF phase = 0
                       THEN [Bookmarks |-> r.Bookmarks, nextID |-> r.nextID]
                       ELSE snap
    /\ phase' = phase + 1
    /\ UNCHANGED <<browserCmd, goos, last, runVars, file, pairs, resAB, resBA,
                   tree, visited>>

NextChrome == PreMerge \/ ImportFile

SpecChrome == InitChrome /\ [][NextChrome]_vars

\* --------------------------------------------------- two pairs, both orders
InitMerge ==
    /\ goos = "linux"
    /\ \E f \in Files :
         /\ bookmarks = loadState(f).Bookmarks
         /\ nextID = loadState(f).nextID
    /\ browserCmd = defaultBrowserCmd(goos)
    /\ RunIdle
    /\ file = <<>>
    /\ rootOrder = <<>>
    /\ calls = <<>>
    /\ snap = NoState
    /\ phase = 0
    /\ pairs \in (Names \X URLs) \X (Names \X URLs)
    /\ resAB = NoState
    /\ resBA = NoState
    /\ tree = <<>>
    /\ visited = <<>>

\* addBookmark on the first pair, then on the second.
MergeAB ==
    /\ phase = 0
    /\ phase' = 1
    /\ resAB' = addBookmark(addBookmark([Bookmarks |-> bookmarks,
                                         nextID |-> nextID],
                                        pairs[1][1], pairs[1][2]),
                            pairs[2][1], pairs[2][2])
    /\ UNCHANGED <<stateVars, last, runVars, file, rootOrder, calls, snap,
                   pairs, resBA, tree, visited>>

\* addBookmark on the second pair, then on the first.
MergeBA ==
    /\ phase = 1
    /\ phase' = 2
    /\ resBA' = addBookmark(addBookmark([Bookmarks |-> bookmarks,
                                         nextID |-> nextID],
                                        pairs[2][1], pairs[2][2]),
                            pairs[1][1], pairs[1][2])
    /\ UNCHANGED <<stateVars, last, runVars, file, rootOrder, calls, snap,
                   pairs, resAB, tree, visited>>

NextMerge == MergeAB \/ MergeBA

SpecMerge == InitMerge /\ [][NextMerge]_vars

\* ------------------------------------------- the walk of one directory tree
InitWalk ==
    /\ goos = "linux"
    /\ bookmarks = <<>>
    /\ nextID = 1
    /\ browserCmd = defaultBrowserCmd(goos)
    /\ RunIdle
    /\ file = <<>>
    /\ rootOrder = <<>>
    /\ calls = <<>>
    /\ snap = NoState
    /\ phase = 0
    /\ pairs = <<>>
    /\ resAB = NoState
    /\ resBA = NoState
    /\ tree \in DirTrees
    /\ visited = <<>>

\* filepath.WalkDir on the Firefox root with the callback of importBookmarks.
Walk ==
    /\ phase = 0
    /\ phase' = 1
    /\ visited' = WalkLog(tree)
    /\ UNCHANGED <<stateVars, last, runVars, file, rootOrder, calls, snap,
                   pairs, resAB, resBA, tree>>

NextWalk == Walk

SpecWalk == InitWalk /\ [][NextWalk]_vars

\* ------------------------------------------------------------------ claims
URLsDistinct(bs) ==
    \A i, j \in 1..Len(bs) : i # j => bs[i].URL # bs[j].URL

IDsDistinct(bs) ==
    \A i, j \in 1..Len(bs) : i # j => bs[i].ID # bs[j].ID

IsPrefix(a, b) == Len(a) <= Len(b) /\ SubSeq(b, 1, Len(a)) = a

URLSet(bs) == {bs[i].URL : i \in 1..Len(bs)}

\* A merge has appended a bookmark: the identifiers of a file end at 2.
Merged(b) == b.ID > 2

\* C1 as stated: in every state reached from an empty collection or from
\* whatever loadState produced, after any merges, no two bookmarks have the
\* same URL.
C1_Claim == URLsDistinct(bookmarks)

\* C1, amended: loadState takes the URLs of the file as they are; no merge
\* (and no restart) makes two bookmarks share a URL when none did before, so
\* the URLs stay distinct from an empty collection and from every loaded
\* collection whose URLs are distinct.
C1_Amended == [][URLsDistinct(bookmarks) => URLsDistinct(bookmarks')]_vars

\* C1's case: a merge appended a bookmark, a later one met a present URL
\* under another name, and the URLs are distinct.
C1_Witness ==
    /\ clash
    /\ URLsDistinct(bookmarks)
    /\ \E i \in 1..Len(bookmarks) : Merged(bookmarks[i])

C3_Theorem ==
    pc \in {"chrome", "firefox", "summary"} =>
        /\ IsPrefix(runStart, bookmarks)
        /\ initialCount = Len(runStart)

\* C3's case: a run that began with a favorite bookmark met its URL under
\* another name, appended a bookmark and is at its summary.
C3_Witness ==
    /\ pc = "summary"
    /\ clash
    /\ Len(bookmarks) > Len(runStart)
    /\ \E i \in 1..Len(runStart) : runStart[i].Favorite

\* C4: after importFromChrome ran twice in a row on one file, the collection
\* and nextID are those the first import left, and the second import added
\* no bookmark.
C4_Theorem ==
    phase = 2 =>
        /\ bookmarks = snap.Bookmarks
        /\ nextID = snap.nextID
        /\ Len(bookmarks) - Len(snap.Bookmarks) = 0

\* C4's case: a file of two URL nodes with different URLs was imported twice
\* into a collection that held a bookmark.
C4_Witness ==
    /\ phase = 2
    /\ Len(calls) >= 2
    /\ \E i, j \in 1..Len(calls) : calls[i][2] # calls[j][2]
    /\ Len(bookmarks) = 2
    /\ bookmarks[1].Name = "B" /\ bookmarks[1].URL = "u1"

\* C5: a source that fails leaves the collection and nextID as they are and
\* the run under way; no step of a run removes or changes a bookmark; the
\* summary is reached only with every candidate path and every places.sqlite
\* of the walk dealt with; and a run that has begun reaches its summary.
C5_Theorem ==
    /\ [][failures' > failures =>
            /\ bookmarks' = bookmarks
            /\ nextID' = nextID
            /\ pc' \in {"chrome", "firefox", "summary"}]_vars
    /\ [][pc # "repl" => IsPrefix(bookmarks, bookmarks')]_vars
    /\ [](pc = "summary" => todo = {} /\ ffPending = 0)
    /\ (pc \in {"chrome", "firefox"} ~> pc = "summary")

\* C5's case: a run in which a source was merged and a source failed is at
\* its summary with more bookmarks than it began with.
C5_Witness ==
    /\ pc = "summary"
    /\ failures >= 1
    /\ foundAnyBrowser
    /\ Len(bookmarks) > initialCount

\* The position of r in order.
Rank(order, r) == CHOOSE k \in 1..Len(order) : order[k] = r

\* The way from a value of the roots map down to node i: the place of the
\* root in the order the roots were ranged over, then the indices below it.
RECURSIVE Way(_, _, _)
Way(f, order, i) ==
    IF f[i].parent = 0 THEN <<Rank(order, i)>>
    ELSE Append(Way(f, order, f[i].parent), i)

\* p comes before q in pre-order: p is a proper prefix of q (an ancestor), or
\* they part at an earlier sibling.
Before(p, q) ==
    \/ Len(p) < Len(q) /\ SubSeq(q, 1, Len(p)) = p
    \/ \E k \in 1..Len(p) :
         /\ k <= Len(q)
         /\ p[k] < q[k]
         /\ \A m \in 1..(k - 1) : p[m] = q[m]

\* The nodes that are URL leaves: type "url" and a URL that is not empty.
URLLeaves(f) == {i \in 1..Len(f) : f[i].Type = "url" /\ f[i].URL # ""}

\* C6: what importFromChrome hands to the merge is one (name, url) pair per
\* URL leaf of the file, no more, in the pre-order of each tree.
C6_Theorem ==
    phase >= 1 =>
        /\ Len(calls) = Cardinality(URLLeaves(file))
        /\ \E q \in Perms(URLLeaves(file)) :
             /\ \A i, j \in 1..Len(q) :
                  i < j => Before(Way(file, rootOrder, q[i]),
                                  Way(file, rootOrder, q[j]))
             /\ calls = [k \in 1..Len(q) |->
                           <<file[q[k]].Name, file[q[k]].URL>>]

\* C6's case: a file of three nodes in which the pre-order is not the order
\* of the indices, with a URL node below a node that contributes no pair.
C6_Witness ==
    /\ phase = 1
    /\ Len(file) = 3
    /\ rootOrder = <<1, 2>>
    /\ file[1].Type = "folder"
    /\ file[3].parent = 1
    /\ calls = <<<<"a", "u1">>, <<"B", "u2">>>>
    /\ file[3].URL = "u1"

\* The largest identifier of a collection that is not empty.
MaxID(bs) ==
    CHOOSE m \in {bs[i].ID : i \in 1..Len(bs)} :
        \A i \in 1..Len(bs) : bs[i].ID <= m

\* C7 as stated: after loadState and after every merge, nextID is the largest
\* identifier plus one, or 1 for an empty collection, whatever identifiers
\* the file holds.
C7_Claim == nextID = IF bookmarks = <<>> THEN 1 ELSE MaxID(bookmarks) + 1

\* The number of entries of log after its first places.sqlite.
VisitsAfterMatch(t, log) ==
    LET hits == {k \in 1..Len(log) : t[log[k]].kind = "db"}
    IN IF hits = {} THEN 0
       ELSE Len(log) - (CHOOSE k \in hits : \A m \in hits : k <= m)

\* C8 as stated: in one run importFromFirefox is invoked at most once and the
\* walk visits nothing after the first places.sqlite.
C8_Claim ==
    phase = 1 =>
        /\ Len(DBVisits(tree, visited)) <= 1
        /\ VisitsAfterMatch(tree, visited) = 0

\* C9 as stated: merging two pairs in either order gives the same collection
\* and the same nextID.
C9_Claim == phase = 2 => resAB = resBA

\* C9, amended: merging two pairs in either order gives the same nextID, the
\* same number of bookmarks and the same set of URLs, and leaves the bookmarks
\* that were there where they were; the identifiers, places and names of the
\* appended bookmarks follow the order of the calls.
C9_Amended ==
    phase = 2 =>
        /\ resAB.nextID = resBA.nextID
        /\ Len(resAB.Bookmarks) = Len(resBA.Bookmarks)
        /\ URLSet(resAB.Bookmarks) = URLSet(resBA.Bookmarks)
        /\ IsPrefix(bookmarks, resAB.Bookmarks)
        /\ IsPrefix(bookmarks, resBA.Bookmarks)

\* C9's case: two pairs with new, different URLs were merged in both orders
\* and the collections differ.
C9_Witness ==
    /\ phase = 2
    /\ pairs[1][2] # pairs[2][2]
    /\ Len(resAB.Bookmarks) = Len(bookmarks) + 2
    /\ resAB # resBA

\* b holds the bookmarks of a, each once, in some order.
IsReorder(a, b) ==
    /\ Len(a) = Len(b)
    /\ \E p \in Perms(1..Len(a)) : b = [i \in 1..Len(a) |-> a[p[i]]]

\* b is a with the favorite flag of one bookmark flipped.
OneFlagFlipped(a, b) ==
    \E i \in 1..Len(a) : b = [a EXCEPT ![i].Favorite = ~a[i].Favorite]

====
